---- MODULE Spec2Model ----
(***************************************************************************)
(* Request-decompressor middleware (src/decompressor.go).                  *)
(*                                                                         *)
(* One goroutine per request runs Middleware.ServeHTTP.  The goroutines    *)
(* share one DecompressionMetrics value: three int64 counters updated with *)
(* atomic.AddInt64, one float64 and a plain Go map from the lower-cased    *)
(* encoding token to a *int64.  Every access to shared state is one step   *)
(* of the model; the purely local work between two such accesses belongs   *)
(* to the step that follows it.                                            *)
(***************************************************************************)
EXTENDS Integers, Sequences, FiniteSets, TLC

(***************************************************************************)
(* Bounds of the model.                                                    *)
(***************************************************************************)
\* longest plaintext that is compressed into a request body
MaxLen == 2
\* number of requests the server accepts in one behaviour
MaxRequests == 2

\* the goroutines that serve requests concurrently
Procs == {1, 2}
\* the goroutine of the one-request-at-a-time specification
SeqProcs == {1}

(***************************************************************************)
(* Header values.  A string is the sequence of its ASCII codes, so that    *)
(* strings.ToLower is computed letter by letter.                           *)
(***************************************************************************)
gzip    == <<103, 122, 105, 112>>
GZIP    == <<71, 90, 73, 80>>
Gzip    == <<71, 122, 105, 112>>
bz2     == <<98, 122, 50>>
BZ2     == <<66, 90, 50>>
zstd    == <<122, 115, 116, 100>>
ZSTD    == <<90, 83, 84, 68>>
br      == <<98, 114>>
BR      == <<66, 82>>
deflate == <<100, 101, 102, 108, 97, 116, 101>>
empty   == <<>>

\* variant: the token is compared as sent
ToLowerRuneIdentity(c) == c

\* unicode.ToLower on an ASCII rune: 'A'..'Z' move to 'a'..'z'
ToLowerRune(c) == IF c >= 65 /\ c <= 90 THEN c + 32 ELSE c

\* strings.ToLower
ToLower(s) == [i \in 1..Len(s) |-> ToLowerRune(s[i])]

\* r.Header: only the Content-Encoding entry matters
NoHeader == [present |-> FALSE, value |-> empty]

Header(v) == [present |-> TRUE, value |-> v]

\* http.Header.Get: "" when the key is absent
HeaderGet(h) == IF h.present THEN h.value ELSE empty

\* http.Header.Del
HeaderDel(h) == NoHeader

AllHeaders ==
    {NoHeader} \cup
    {Header(v) : v \in {empty, gzip, GZIP, Gzip, bz2, BZ2, zstd, ZSTD, br, BR,
                      deflate}}

\* the header values of the concurrent specification
ConcHeaders ==
    {NoHeader} \cup
    {Header(v) : v \in {empty, gzip, GZIP, bz2, zstd, deflate}}

(***************************************************************************)
(* The compression libraries (compress/gzip, compress/bzip2,               *)
(* klauspost/compress/zstd) are outside the repository.  They are modelled *)
(* by one framed codec per format:                                         *)
(*     magic, length n, n coded bytes, checksum of the plaintext           *)
(* The decoder walks the frame byte by byte, returns what it has decoded   *)
(* when it meets a defect, and reports the defect as an error, as          *)
(* io.ReadAll over a decompressing reader does.                            *)
(***************************************************************************)
PlainBytes == {97, 98}

Plaintexts == UNION {[1..n -> PlainBytes] : n \in 0..MaxLen}

Formats == {"gzip", "bz2", "zstd"}

\* first byte of each format's magic number: 1f 8b, "BZh", 28 b5 2f fd
Magic(f) == CASE f = "gzip" -> 31 [] f = "bz2" -> 66 [] f = "zstd" -> 40

Code(b) == (b + 13) % 256

Decode(c) == (c + 243) % 256

RECURSIVE SumSeq(_)
SumSeq(s) == IF s = <<>> THEN 0 ELSE Head(s) + SumSeq(Tail(s))

Checksum(x) == (SumSeq(x) + Len(x)) % 256

Compress(f, x) ==
    <<Magic(f), Len(x)>> \o [i \in 1..Len(x) |-> Code(x[i])] \o <<Checksum(x)>>

Min(a, b) == IF a < b THEN a ELSE b

\* gzip.NewReader reads the member header (here magic and length) and fails
\* on a short or wrong one.
\* bzip2.NewReader returns no error.  zstd.NewReader over a *bytes.Reader
\* starts a stream decoder and reports frame errors on Read, not here.
NewReaderFails(f, body) ==
    IF f # "gzip" THEN FALSE
    ELSE IF Len(body) < 2 THEN TRUE
    ELSE body[1] # Magic(f)

\* io.ReadAll(reader): the bytes decoded before the first defect, and
\* whether a defect was met (err # nil).
ReadAllDecoder(f, body) ==
    IF Len(body) < 2
    THEN [data |-> <<>>, err |-> TRUE]
    ELSE IF body[1] # Magic(f)
    THEN [data |-> <<>>, err |-> TRUE]
    ELSE LET n     == body[2]
             avail == Min(n, Len(body) - 2)
             data  == [i \in 1..avail |-> Decode(body[2 + i])]
         IN  [data |-> data,
              err  |-> IF Len(body) # n + 3 THEN TRUE
                       ELSE body[n + 3] # Checksum(data)]

ValidFrames == {Compress(f, x) : f \in Formats, x \in Plaintexts}

\* the frame cut short after at least its first byte
Prefixes(b) == {SubSeq(b, 1, k) : k \in 1..(Len(b) - 1)}

BadChecksum(b) == [b EXCEPT ![Len(b)] = (@ + 1) % 256]

\* every body a client sends: valid frames, truncated ones, damaged ones
AllBodies ==
    ValidFrames \cup UNION {Prefixes(b) : b \in ValidFrames}
                \cup {BadChecksum(b) : b \in ValidFrames}

\* the bodies of the concurrent specification: a valid gzip frame and a
\* bzip2 frame that lost its checksum
ConcBodies ==
    {Compress("gzip", <<97>>), SubSeq(Compress("bz2", <<97>>), 1, 3)}


(***************************************************************************)
(* State.                                                                  *)
(***************************************************************************)
VARIABLES
    gor,      \* gor[p]: the goroutine's position in ServeHTTP and its locals
    metrics,  \* *m.metrics, shared by every goroutine
    heap,     \* the int64 cells allocated by new(int64); heap[a] is cell a
    crashed,  \* the runtime ended the process ("concurrent map writes")
    started,  \* requests accepted so far
    carried   \* history: per token, the requests that executed line 75

vars == <<gor, metrics, heap, crashed, started, carried>>

\* http.StatusBadRequest
StatusBadRequest == 400

Wire(data, fail) ==
    [kind |-> "wire", data |-> data, fail |-> fail, consumed |-> FALSE]

\* io.NopCloser(bytes.NewReader(b))
BufferBody(b) ==
    [kind |-> "buffer", data |-> b, fail |-> FALSE, consumed |-> FALSE]

Request(h, data, fail) ==
    [ce |-> h, body |-> Wire(data, fail), contentLength |-> Len(data)]

\* the requests that arrive with header h: each body on a stream that is
\* read to the end, and a stream whose read fails (what it delivered before
\* failing is never looked at: line 80 returns)
Arrivals(h, bodies) ==
    {Request(h, b, FALSE) : b \in bodies} \cup {Request(h, <<>>, TRUE)}

NoRequest == [ce |-> NoHeader, body |-> Wire(<<>>, FALSE), contentLength |-> 0]

NoError == [kind |-> "nil", arg |-> empty]

\* the value ServeHTTP returns: nil, or a caddyhttp.HandlerError
Nil == [status |-> 0, err |-> NoError, from |-> "none"]

\* caddyhttp.Error(http.StatusBadRequest, err)
HandlerError(kind, arg) ==
    [status |-> StatusBadRequest, err |-> [kind |-> kind, arg |-> arg],
     from |-> "middleware"]

\* what next.ServeHTTP may return: nil or an error of its own
NextOutcomes ==
    {[status |-> 0, err |-> NoError, from |-> "next"],
     [status |-> 502, err |-> [kind |-> "downstream", arg |-> empty],
      from |-> "next"]}

IdleG ==
    [pc |-> "idle", req |-> NoRequest, r |-> NoRequest, encoding |-> empty,
     exists |-> FALSE, ptr |-> 0, decoder |-> "none", decompressed |-> <<>>,
     ret |-> Nil, nextCalls |-> 0, fwd |-> NoRequest,
     incTotal |-> 0, incSuccess |-> 0, incFailed |-> 0, incKey |-> <<>>]

\* Provision: zero counters and an empty map
Provision ==
    [TotalRequests |-> 0, SuccessfulRequests |-> 0, FailedRequests |-> 0,
     DecompressionTimings |-> 0, RequestsByCompression |-> <<>>]

Init ==
    /\ gor = [p \in Procs |-> IdleG]
    /\ metrics = Provision
    /\ heap = <<>>
    /\ crashed = FALSE
    /\ started = 0
    /\ carried = <<>>

\* m[k] = v on a Go map
MapPut(m, k, v) == [x \in DOMAIN m \cup {k} |-> IF x = k THEN v ELSE m[x]]

\* the count a reader of the metrics sees for token k
Count(k) == heap[metrics.RequestsByCompression[k]]

Bump(f, k) ==
    [x \in DOMAIN f \cup {k} |-> IF x \in DOMAIN f /\ x # k THEN f[x]
                                 ELSE IF x \in DOMAIN f THEN f[x] + 1 ELSE 1]

\* the switch of line 84
Decoder(encoding) ==
    CASE encoding = gzip -> "gzip"
      [] encoding = bz2  -> "bz2"
      [] encoding = zstd -> "zstd"
      [] OTHER           -> "none"

(***************************************************************************)
(* ServeHTTP, one action per step.                                         *)
(***************************************************************************)
\* a request arrives and a goroutine starts ServeHTTP on it
Start(p, headers, bodies) ==
    /\ ~crashed
    /\ gor[p].pc = "idle"
    /\ started < MaxRequests
    /\ \E h \in headers : \E rq \in Arrivals(h, bodies) :
          gor' = [gor EXCEPT ![p] =
                    [IdleG EXCEPT !.pc = "L65", !.req = rq, !.r = rq]]
    /\ started' = started + 1
    /\ UNCHANGED <<metrics, heap, crashed, carried>>

\* return next.ServeHTTP(w, r)
CallNext(g, out) ==
    [g EXCEPT !.fwd = g.r, !.nextCalls = @ + 1, !.ret = out, !.pc = "done"]

\* variant: the request is counted before the header test
PassThroughCounted(p) ==
    /\ ~crashed
    /\ gor[p].pc = "L65"
    /\ HeaderGet(gor[p].r.ce) = empty
    /\ metrics' = [metrics EXCEPT !.TotalRequests = @ + 1]
    /\ \E out \in NextOutcomes : gor' = [gor EXCEPT ![p] = CallNext(@, out)]
    /\ UNCHANGED <<heap, crashed, started, carried>>

\* lines 65-67
PassThrough(p) ==
    /\ ~crashed
    /\ gor[p].pc = "L65"
    /\ HeaderGet(gor[p].r.ce) = empty
    /\ \E out \in NextOutcomes : gor' = [gor EXCEPT ![p] = CallNext(@, out)]
    /\ UNCHANGED <<metrics, heap, crashed, started, carried>>

\* lines 65, 69, 71
CountTotal(p) ==
    /\ ~crashed
    /\ gor[p].pc = "L65"
    /\ HeaderGet(gor[p].r.ce) # empty
    /\ metrics' = [metrics EXCEPT !.TotalRequests = @ + 1]
    /\ gor' = [gor EXCEPT ![p].incTotal = @ + 1,
                          ![p].encoding = ToLower(HeaderGet(gor[p].r.ce)),
                          ![p].pc = "L72"]
    /\ UNCHANGED <<heap, crashed, started, carried>>

\* line 72: the map read of the exists test
MapCheck(p) ==
    /\ ~crashed
    /\ gor[p].pc = "L72"
    /\ LET found == gor[p].encoding \in DOMAIN metrics.RequestsByCompression
       IN  gor' = [gor EXCEPT ![p].exists = found,
                              ![p].pc = IF found THEN "L75" ELSE "L73"]
    /\ UNCHANGED <<metrics, heap, crashed, started, carried>>

\* line 73: new(int64) and the map write
MapInsert(p) ==
    /\ ~crashed
    /\ gor[p].pc = "L73"
    /\ heap' = Append(heap, 0)
    /\ metrics' = [metrics EXCEPT !.RequestsByCompression =
                      MapPut(@, gor[p].encoding, Len(heap) + 1)]
    /\ gor' = [gor EXCEPT ![p].pc = "L75"]
    /\ UNCHANGED <<crashed, started, carried>>

\* line 75: the map read that yields the pointer
MapLookup(p) ==
    /\ ~crashed
    /\ gor[p].pc = "L75"
    /\ gor' = [gor EXCEPT
                 ![p].ptr = metrics.RequestsByCompression[gor[p].encoding],
                 ![p].pc = "L75add"]
    /\ UNCHANGED <<metrics, heap, crashed, started, carried>>

\* line 75: atomic.AddInt64 on the pointer
CountEncoding(p) ==
    /\ ~crashed
    /\ gor[p].pc = "L75add"
    /\ heap' = [heap EXCEPT ![gor[p].ptr] = @ + 1]
    /\ carried' = Bump(carried, gor[p].encoding)
    /\ gor' = [gor EXCEPT ![p].incKey = gor[p].encoding, ![p].pc = "L77"]
    /\ UNCHANGED <<metrics, crashed, started>>

\* variant: an error return that leaves FailedRequests alone
FailUncounted(p, kind, arg) ==
    /\ gor' = [gor EXCEPT ![p].r.body.consumed = TRUE,
                          ![p].decoder = Decoder(gor[p].encoding),
                          ![p].ret = HandlerError(kind, arg),
                          ![p].pc = "done"]
    /\ UNCHANGED <<metrics, heap, crashed, started, carried>>

\* atomic.AddInt64(&m.metrics.FailedRequests, 1); return caddyhttp.Error(400, err)
Fail(p, kind, arg) ==
    /\ metrics' = [metrics EXCEPT !.FailedRequests = @ + 1]
    /\ gor' = [gor EXCEPT ![p].incFailed = @ + 1,
                          ![p].r.body.consumed = TRUE,
                          ![p].decoder = Decoder(gor[p].encoding),
                          ![p].ret = HandlerError(kind, arg),
                          ![p].pc = "done"]
    /\ UNCHANGED <<heap, crashed, started, carried>>

\* lines 77-81: io.ReadAll(r.Body) fails
BodyReadFail(p) ==
    /\ ~crashed
    /\ gor[p].pc = "L77"
    /\ gor[p].r.body.fail
    /\ Fail(p, "read", empty)

\* variant: the default branch hands the request on as it is
UnsupportedPassThrough(p) ==
    /\ ~crashed
    /\ gor[p].pc = "L77"
    /\ ~gor[p].r.body.fail
    /\ Decoder(gor[p].encoding) = "none"
    /\ \E out \in NextOutcomes : gor' = [gor EXCEPT ![p] = CallNext(@, out)]
    /\ UNCHANGED <<metrics, heap, crashed, started, carried>>

\* lines 107-110: the default branch of the switch
Unsupported(p) ==
    /\ ~crashed
    /\ gor[p].pc = "L77"
    /\ ~gor[p].r.body.fail
    /\ Decoder(gor[p].encoding) = "none"
    /\ Fail(p, "unsupported Content-Encoding: ", gor[p].encoding)

\* lines 86-90 and 99-103: the constructor of the decoder fails
ConstructFail(p) ==
    /\ ~crashed
    /\ gor[p].pc = "L77"
    /\ ~gor[p].r.body.fail
    /\ Decoder(gor[p].encoding) # "none"
    /\ NewReaderFails(Decoder(gor[p].encoding), gor[p].r.body.data)
    /\ Fail(p, "construct", empty)

\* The err that line 113 tests is the one declared at line 77.  In the gzip
\* and zstd cases "reader, err := ..." (lines 86, 99) declares a new err in
\* the case clause, and lines 91 and 104 assign the result of io.ReadAll to
\* that inner err: the outer one stays nil.  The bz2 case declares only
\* reader (line 95), so line 96 assigns the outer err.
OuterErr(f, body) ==
    IF f = "bz2" THEN ReadAllDecoder(f, body).err ELSE FALSE

\* lines 113-116
DrainFail(p) ==
    /\ ~crashed
    /\ gor[p].pc = "L77"
    /\ ~gor[p].r.body.fail
    /\ Decoder(gor[p].encoding) # "none"
    /\ ~NewReaderFails(Decoder(gor[p].encoding), gor[p].r.body.data)
    /\ OuterErr(Decoder(gor[p].encoding), gor[p].r.body.data)
    /\ Fail(p, "drain", empty)

\* lines 77-113 with err == nil at line 113
Decoded(p) ==
    /\ ~crashed
    /\ gor[p].pc = "L77"
    /\ ~gor[p].r.body.fail
    /\ Decoder(gor[p].encoding) # "none"
    /\ ~NewReaderFails(Decoder(gor[p].encoding), gor[p].r.body.data)
    /\ ~OuterErr(Decoder(gor[p].encoding), gor[p].r.body.data)
    /\ gor' = [gor EXCEPT
                 ![p].r.body.consumed = TRUE,
                 ![p].decoder = Decoder(gor[p].encoding),
                 ![p].decompressed =
                     ReadAllDecoder(Decoder(gor[p].encoding),
                                    gor[p].r.body.data).data,
                 ![p].pc = "L118"]
    /\ UNCHANGED <<metrics, heap, crashed, started, carried>>

\* variant: the success path without its counter
CountSuccessSkipped(p) ==
    /\ ~crashed
    /\ gor[p].pc = "L118"
    /\ gor' = [gor EXCEPT ![p].pc = "L119"]
    /\ UNCHANGED <<metrics, heap, crashed, started, carried>>

\* line 118
CountSuccess(p) ==
    /\ ~crashed
    /\ gor[p].pc = "L118"
    /\ metrics' = [metrics EXCEPT !.SuccessfulRequests = @ + 1]
    /\ gor' = [gor EXCEPT ![p].incSuccess = @ + 1, ![p].pc = "L119"]
    /\ UNCHANGED <<heap, crashed, started, carried>>

\* variant: the content-length of the compressed body is kept
RewrittenKeepLength(g) ==
    [ce |-> HeaderDel(g.r.ce), body |-> BufferBody(g.decompressed),
     contentLength |-> g.r.contentLength]

\* lines 119-121
Rewritten(g) ==
    [ce |-> HeaderDel(g.r.ce), body |-> BufferBody(g.decompressed),
     contentLength |-> Len(g.decompressed)]

Rewrite(p) ==
    /\ ~crashed
    /\ gor[p].pc = "L119"
    /\ gor' = [gor EXCEPT ![p].r = Rewritten(gor[p]), ![p].pc = "L123"]
    /\ UNCHANGED <<metrics, heap, crashed, started, carried>>

\* line 123
Forward(p) ==
    /\ ~crashed
    /\ gor[p].pc = "L123"
    /\ \E out \in NextOutcomes : gor' = [gor EXCEPT ![p] = CallNext(@, out)]
    /\ UNCHANGED <<metrics, heap, crashed, started, carried>>

\* ServeHTTP has returned; the goroutine is free for the next request
Return(p) ==
    /\ ~crashed
    /\ gor[p].pc = "done"
    /\ gor' = [gor EXCEPT ![p] = IdleG]
    /\ UNCHANGED <<metrics, heap, crashed, started, carried>>

\* The map is accessed without a lock.  When a map write (line 73) of one
\* goroutine is concurrent with a map access (lines 72, 73, 75) of another,
\* the Go runtime may detect it and end the process with a fatal error;
\* when it does not, the accesses take effect one after the other.
MapRaceFault ==
    /\ ~crashed
    /\ \E p, q \in Procs :
          /\ p # q
          /\ gor[p].pc = "L73"
          /\ gor[q].pc \in {"L72", "L73", "L75"}
    /\ crashed' = TRUE
    /\ UNCHANGED <<gor, metrics, heap, started, carried>>

Step(p) ==
    \/ PassThrough(p)
    \/ CountTotal(p)
    \/ MapCheck(p)
    \/ MapInsert(p)
    \/ MapLookup(p)
    \/ CountEncoding(p)
    \/ BodyReadFail(p)
    \/ Unsupported(p)
    \/ ConstructFail(p)
    \/ DrainFail(p)
    \/ Decoded(p)
    \/ CountSuccess(p)
    \/ Rewrite(p)
    \/ Forward(p)
    \/ Return(p)

\* concurrent goroutines
Next ==
    \/ \E p \in Procs : Start(p, ConcHeaders, ConcBodies)
    \/ \E p \in Procs : Step(p)
    \/ MapRaceFault

Spec == Init /\ [][Next]_vars

\* one request at a time, over every header value and every body
SeqNext ==
    \/ \E p \in SeqProcs : Start(p, AllHeaders, AllBodies)
    \/ \E p \in SeqProcs : Step(p)

SeqSpec == Init /\ [][SeqNext]_vars

(***************************************************************************)
(* Vocabulary of the properties.                                           *)
(***************************************************************************)
\* the spellings of each supported token, and the format each selects
Spellings(f) ==
    CASE f = "gzip" -> {gzip, GZIP, Gzip}
      [] f = "bz2"  -> {bz2, BZ2}
      [] f = "zstd" -> {zstd, ZSTD}

\* header values that are not a spelling of a supported token, each with
\* its lower-cased token
Unrecognized == {<<br, br>>, <<BR, br>>, <<deflate, deflate>>}

\* header values that differ at most in letter case
CaseClasses ==
    {{gzip, GZIP, Gzip}, {bz2, BZ2}, {zstd, ZSTD}, {br, BR}, {deflate}}

\* the lower-case member of each class
LowerTokens == {gzip, bz2, zstd, br, deflate}

Done(p) == gor[p].pc = "done"

\* the Content-Encoding value the request arrived with
Sent(p) == HeaderGet(gor[p].req.ce)

\* the bytes the request arrived with, when its body can be read to the end
Readable(p) == ~gor[p].req.body.fail

Payload(p) == gor[p].req.body.data

\* no goroutine is inside ServeHTTP
Quiescent == \A p \in Procs : gor[p].pc \in {"idle", "done"}

(***************************************************************************)
(* C1.  A request with a supported Content-Encoding whose body is the      *)
(* compression of a plaintext x is forwarded to next with body x, without  *)
(* the Content-Encoding header and with content-length Len(x).             *)
(***************************************************************************)
C1_RoundTrip ==
    \A p \in Procs, f \in Formats, x \in Plaintexts :
        ( /\ Done(p)
          /\ Sent(p) \in Spellings(f)
          /\ Readable(p)
          /\ Payload(p) = Compress(f, x) )
        => /\ gor[p].nextCalls = 1
           /\ gor[p].fwd.body.kind = "buffer"
           /\ gor[p].fwd.body.data = x
           /\ ~gor[p].fwd.ce.present
           /\ gor[p].fwd.contentLength = Len(x)

C1_Witness ==
    \E p \in Procs :
        /\ Done(p)
        /\ Sent(p) = gzip
        /\ Readable(p)
        /\ Payload(p) = Compress("gzip", <<97, 98>>)
        /\ gor[p].nextCalls = 1
        /\ gor[p].fwd.body.data = <<97, 98>>
        /\ gor[p].fwd.contentLength = 2

(***************************************************************************)
(* C2.  A request with a supported token whose payload is corrupted or     *)
(* truncated ends with HTTP 400, FailedRequests incremented once,          *)
(* SuccessfulRequests not incremented and next not invoked.                *)
(***************************************************************************)
Corrupted(f, data) == \A x \in Plaintexts : data # Compress(f, x)

C2_CorruptRejected ==
    \A p \in Procs, f \in Formats :
        ( /\ Done(p)
          /\ Sent(p) \in Spellings(f)
          /\ Corrupted(f, Payload(p)) )
        => /\ gor[p].ret.status = StatusBadRequest
           /\ gor[p].incFailed = 1
           /\ gor[p].incSuccess = 0
           /\ gor[p].nextCalls = 0

(***************************************************************************)
(* C3.  A request whose Content-Encoding is absent or empty is handed to   *)
(* next as it arrived, and the step that does so changes no metric.        *)
(***************************************************************************)
C3_PassThrough ==
    [][ \A p \in Procs :
          ( /\ gor[p].pc = "L65"
            /\ Sent(p) = empty
            /\ gor'[p].pc # "L65" )
          => /\ gor'[p].pc = "done"
             /\ gor'[p].nextCalls = 1
             /\ gor'[p].fwd = gor[p].req
             /\ gor'[p].r = gor[p].req
             /\ gor'[p].ret \in NextOutcomes
             /\ gor'[p].incTotal = 0
             /\ gor'[p].incSuccess = 0
             /\ gor'[p].incFailed = 0
             /\ metrics' = metrics
             /\ heap' = heap ]_vars

C3_Witness ==
    \E p, q \in Procs :
        /\ Done(p)
        /\ gor[p].req.ce = Header(empty)
        /\ gor[p].nextCalls = 1
        /\ gor[p].fwd = gor[p].req
        /\ Done(q)
        /\ gor[q].req.ce = NoHeader
        /\ gor[q].nextCalls = 1
        /\ metrics = Provision

(***************************************************************************)
(* C4.  A request whose lower-cased token is non-empty and unrecognized    *)
(* ends with HTTP 400 and the message "unsupported Content-Encoding:       *)
(* <token>", FailedRequests incremented once, next never invoked and the   *)
(* body never passed through.                                              *)
(***************************************************************************)
C4_UnsupportedMessage ==
    \A p \in Procs, u \in Unrecognized :
        ( Done(p) /\ Sent(p) = u[1] )
        => /\ gor[p].ret.status = StatusBadRequest
           /\ gor[p].ret.err =
                 [kind |-> "unsupported Content-Encoding: ", arg |-> u[2]]
           /\ gor[p].incFailed = 1
           /\ gor[p].nextCalls = 0

\* C4 as amended: the message is the unsupported-encoding one when the body
\* was read without error, and the read error otherwise; in both cases the
\* request ends with HTTP 400, FailedRequests incremented once and next
\* never invoked.
C4_UnsupportedRejected ==
    \A p \in Procs, u \in Unrecognized :
        ( Done(p) /\ Sent(p) = u[1] )
        => /\ gor[p].ret.status = StatusBadRequest
           /\ gor[p].ret.from = "middleware"
           /\ gor[p].ret.err =
                 IF Readable(p)
                 THEN [kind |-> "unsupported Content-Encoding: ", arg |-> u[2]]
                 ELSE [kind |-> "read", arg |-> empty]
           /\ gor[p].incFailed = 1
           /\ gor[p].incSuccess = 0
           /\ gor[p].nextCalls = 0
           /\ gor[p].fwd = NoRequest

C4_Witness ==
    \E p \in Procs :
        /\ Done(p)
        /\ Sent(p) = BR
        /\ Readable(p)
        /\ gor[p].ret.err =
              [kind |-> "unsupported Content-Encoding: ", arg |-> br]
        /\ gor[p].incFailed = 1
        /\ metrics.FailedRequests = 2

(***************************************************************************)
(* C5.  Once every concurrent invocation has completed, the map holds one  *)
(* entry per distinct token and each token's count equals the number of    *)
(* requests that carried it.                                               *)
(***************************************************************************)
C5_NoLostIncrement ==
    (Quiescent /\ ~crashed) =>
        /\ DOMAIN metrics.RequestsByCompression = DOMAIN carried
        /\ \A k \in DOMAIN carried : Count(k) = carried[k]

(***************************************************************************)
(* C6.  Whenever no request is inside ServeHTTP, SuccessfulRequests +      *)
(* FailedRequests = TotalRequests, and every completed request that        *)
(* carried a Content-Encoding value incremented TotalRequests once and     *)
(* exactly one of SuccessfulRequests and FailedRequests once.              *)
(***************************************************************************)
C6_CountersBalance ==
    Quiescent =>
        /\ metrics.SuccessfulRequests + metrics.FailedRequests
              = metrics.TotalRequests
        /\ \A p \in Procs :
              (Done(p) /\ Sent(p) # empty) =>
                  /\ gor[p].incTotal = 1
                  /\ gor[p].incSuccess + gor[p].incFailed = 1

C6_Witness ==
    /\ Quiescent
    /\ metrics.TotalRequests = 2
    /\ metrics.SuccessfulRequests = 1
    /\ metrics.FailedRequests = 1
    /\ \E p \in Procs : Done(p) /\ gor[p].incFailed = 1

(***************************************************************************)
(* C7.  The Content-Encoding value is matched without regard to letter     *)
(* case: the counter a request increments is keyed by the lower-cased      *)
(* token, a decoder is selected exactly for the spellings of gzip, bz2 and *)
(* zstd, and two requests that differ only in the letter case of the value *)
(* select the same decoder and end the same way.                           *)
(***************************************************************************)
SameOutcome(g, h) ==
    /\ g.decoder = h.decoder
    /\ g.incKey = h.incKey
    /\ g.nextCalls = h.nextCalls
    /\ g.fwd = h.fwd
    /\ g.ret.from = h.ret.from
    /\ (g.ret.from = "middleware" => g.ret = h.ret)
    /\ g.incSuccess = h.incSuccess
    /\ g.incFailed = h.incFailed

C7_CaseInsensitive ==
    /\ DOMAIN metrics.RequestsByCompression \subseteq LowerTokens
    /\ \A p \in Procs :
          (Done(p) /\ Sent(p) # empty) =>
              /\ gor[p].incKey \in LowerTokens
              /\ \E c \in CaseClasses : {Sent(p), gor[p].incKey} \subseteq c
              /\ \A f \in Formats :
                    gor[p].decoder = f <=> Sent(p) \in Spellings(f)
    /\ \A p, q \in Procs :
          ( /\ Done(p)
            /\ Done(q)
            /\ \E c \in CaseClasses : {Sent(p), Sent(q)} \subseteq c
            /\ gor[p].req.body = gor[q].req.body )
          => SameOutcome(gor[p], gor[q])

C7_Witness ==
    \E p, q \in Procs :
        /\ Done(p)
        /\ Done(q)
        /\ Sent(p) = GZIP
        /\ Sent(q) = gzip
        /\ gor[p].req.body = gor[q].req.body
        /\ gor[p].decoder = "gzip"
        /\ gor[p].incKey = gzip
        /\ gor[p].nextCalls = 1

(***************************************************************************)
(* C8.  Decoding a request body updates DecompressionTimings: after a      *)
(* decode the metric differs from the value Provision gave it.             *)
(***************************************************************************)
C8_TimingRecorded ==
    (\E p \in Procs : Done(p) /\ gor[p].incSuccess = 1)
        => metrics.DecompressionTimings # Provision.DecompressionTimings

(***************************************************************************)
(* C9.  A request with a non-empty Content-Encoding ends in exactly one of *)
(* two ways.  Failure: FailedRequests incremented, HTTP 400 returned, next *)
(* never invoked (also when reading the body fails, after TotalRequests    *)
(* and the token's counter were incremented).  Success: SuccessfulRequests *)
(* incremented and body, header and content-length rewritten before next   *)
(* is invoked once, and the outcome of next returned.                      *)
(***************************************************************************)
Failure(g) ==
    /\ g.incFailed = 1
    /\ g.incSuccess = 0
    /\ g.ret.status = StatusBadRequest
    /\ g.ret.from = "middleware"
    /\ g.nextCalls = 0

Success(g) ==
    /\ g.incSuccess = 1
    /\ g.incFailed = 0
    /\ g.nextCalls = 1
    /\ g.ret \in NextOutcomes
    /\ ~g.fwd.ce.present
    /\ g.fwd.body = BufferBody(g.decompressed)
    /\ g.fwd.contentLength = Len(g.decompressed)

C9_TwoEndings ==
    \A p \in Procs :
        Sent(p) # empty =>
            /\ Done(p) => (Failure(gor[p]) /\ ~Success(gor[p]))
                            \/ (Success(gor[p]) /\ ~Failure(gor[p]))
            /\ (Done(p) /\ ~Readable(p)) =>
                   /\ Failure(gor[p])
                   /\ gor[p].incTotal = 1
                   /\ gor[p].incKey # empty
            /\ gor[p].nextCalls > 0 => Success(gor[p])
            /\ gor[p].incFailed > 0 => gor[p].nextCalls = 0

C9_Witness ==
    \E p, q \in Procs :
        /\ Done(p)
        /\ ~Readable(p)
        /\ Failure(gor[p])
        /\ gor[p].incKey = gzip
        /\ Done(q)
        /\ Success(gor[q])
        /\ gor[q].ret.status = 502

(***************************************************************************)
(* C10.  Once RequestsByCompression has an entry for a token, the key is   *)
(* never removed and the count observed for it never decreases.            *)
(***************************************************************************)
C10_Monotonic ==
    [][ \A k \in DOMAIN metrics.RequestsByCompression :
          /\ k \in DOMAIN metrics'.RequestsByCompression
          /\ heap'[metrics'.RequestsByCompression[k]] >= Count(k) ]_vars

====
